---- MODULE Spec2Model ----
(***************************************************************************)
(* A model of translate.py, the WooCommerce CSV translator: the table      *)
(* loader (sniff_read_csv), the column classifier (choose_columns) and     *)
(* the translation loop of main() with the retry loop of                   *)
(* deepl_translate_batch.                                                  *)
(*                                                                         *)
(* Text is modelled as sequences of characters, each character a string    *)
(* of length one; a character outside ASCII is written "U+XXXX".           *)
(***************************************************************************)
EXTENDS Integers, Sequences, FiniteSets, TLC

VARIABLES
    pc,                 \* position of the program
    err,                \* the exception that ended the run, "" when none
    file,               \* the input file: [bom, pre, head, post]
    arg_sep,            \* --sep, None when absent
    arg_encoding,       \* --encoding, None when absent
    parse,              \* what pd.read_csv answers for this file
    hdr,                \* result of _find_header_and_sep
    reads,              \* the _try_read calls made so far, in order
    loaded,             \* the parse sniff_read_csv returned
    df,                 \* the table: [columns, data]
    df0,                \* the table as it was when classification started
    args,               \* the command line: exclude_ingredients, only_cols, estimate, ...
    sel,                \* [cols, html_cols, skipped], the result of choose_columns
    ci,                 \* index in cols of the column being translated
    bi,                 \* start index i of the current batch
    out_vals,           \* translated values assembled for the column
    det_langs,          \* detected-language tags assembled for the column
    tries,              \* attempts made for the current batch
    backoff,            \* next backoff delay, in units of 1/Scale
    slept,              \* delays slept for the current batch, in order
    resp,               \* outcome of the latest remote call
    detected_summary,   \* language tag -> occurrences
    written             \* the tables handed to to_csv, in order

vars == <<pc, err, file, arg_sep, arg_encoding, parse, hdr, reads, loaded, df, df0, args,
          sel, ci, bi, out_vals, det_langs, tries, backoff, slept, resp,
          detected_summary, written>>

loadVars == <<file, arg_sep, arg_encoding, parse, hdr, reads, loaded>>

tableVars == <<df, df0, args, sel, written>>

loopVars == <<ci, bi, out_vals, det_langs, tries, backoff, slept, resp,
              detected_summary>>

None == "None"

(***************************************************************************)
(* Text helpers: what str.lower, str.strip, str.split, `in` and            *)
(* str.isalpha do on the characters the model uses.                        *)
(***************************************************************************)
UpperChars ==
    <<"A","B","C","D","E","F","G","H","I","J","K","L","M","N","O","P","Q","R","S","T","U",
      "V","W","X","Y","Z","U+00C9","U+017D","U+0141","U+00D6">>

LowerChars ==
    <<"a","b","c","d","e","f","g","h","i","j","k","l","m","n","o","p","q","r","s","t","u",
      "v","w","x","y","z","U+00E9","U+017E","U+0142","U+00F6">>

Range(f) == {f[i] : i \in DOMAIN f}

Min(a, b) == IF a <= b THEN a ELSE b

LowerCh(c) ==
    IF c \in Range(UpperChars)
    THEN LowerChars[CHOOSE i \in DOMAIN UpperChars : UpperChars[i] = c]
    ELSE c

Lower(s) == [i \in 1..Len(s) |-> LowerCh(s[i])]

IsAlpha(c) == c \in Range(UpperChars) \cup Range(LowerChars)

Whitespace == {" ", "\t", "\n", "\r"}

\* s with its leading and trailing characters of chars removed (str.strip)
Strip(s, chars) ==
    LET keep == {i \in 1..Len(s) : s[i] \notin chars}
    IN  IF keep = {} THEN <<>>
        ELSE SubSeq(s, CHOOSE i \in keep : \A j \in keep : i <= j,
                       CHOOSE i \in keep : \A j \in keep : i >= j)

\* s with its trailing characters of chars removed (str.rstrip)
RStrip(s, chars) ==
    LET keep == {i \in 1..Len(s) : s[i] \notin chars}
    IN  IF keep = {} THEN <<>>
        ELSE SubSeq(s, 1, CHOOSE i \in keep : \A j \in keep : i >= j)

\* k in s, for strings
Contains(s, k) ==
    \E i \in 0..(Len(s) - Len(k)) : SubSeq(s, i + 1, i + Len(k)) = k

\* any(k in s for k in keys)
ContainsAny(s, keys) == \E j \in DOMAIN keys : Contains(s, keys[j])

RECURSIVE Split(_, _)
\* s.split(sep) for a one-character sep
Split(s, sep) ==
    LET at == {i \in 1..Len(s) : s[i] = sep}
    IN  IF at = {} THEN <<s>>
        ELSE LET i == CHOOSE k \in at : \A j \in at : k <= j
             IN  <<SubSeq(s, 1, i - 1)>> \o Split(SubSeq(s, i + 1, Len(s)), sep)

Rep(v, n) == [i \in 1..n |-> v]

(***************************************************************************)
(* The keyword tables of translate.py.                                     *)
(***************************************************************************)
EXPECTED_COL_HINTS ==
  {
    <<"c","a","t","e","g","o","r","i","e","s">>,
    <<"d","e","s","c","r","i","p","t","i","o","n">>, <<"i","m","a","g","e","s">>,
    <<"n","a","m","e">>, <<"r","e","g","u","l","a","r"," ","p","r","i","c","e">>,
    <<"s","h","o","r","t"," ","d","e","s","c","r","i","p","t","i","o","n">>, <<"s","k","u">>
  }

NEVER_TRANSLATE_KEYS ==
  <<
    <<"i","d">>, <<"s","k","u">>, <<"s","l","u","g">>, <<"p","r","i","c","e">>,
    <<"r","e","g","u","l","a","r"," ","p","r","i","c","e">>,
    <<"s","a","l","e"," ","p","r","i","c","e">>, <<"s","t","o","c","k">>,
    <<"w","e","i","g","h","t">>, <<"l","e","n","g","t","h">>, <<"w","i","d","t","h">>,
    <<"h","e","i","g","h","t">>, <<"d","o","w","n","l","o","a","d">>, <<"i","m","a","g","e">>,
    <<"i","m","a","g","e","s">>, <<"g","a","l","l","e","r","y">>,
    <<"v","i","r","t","u","a","l">>, <<"t","a","x">>, <<"s","h","i","p","p","i","n","g">>,
    <<"m","e","n","u"," ","o","r","d","e","r">>, <<"s","t","a","t","u","s">>,
    <<"c","a","t","a","l","o","g"," ","v","i","s","i","b","i","l","i","t","y">>,
    <<"d","a","t","e">>, <<"p","a","r","e","n","t">>, <<"u","p","s","e","l","l","s">>,
    <<"c","r","o","s","s","-","s","e","l","l","s">>,
    <<"e","x","t","e","r","n","a","l"," ","u","r","l">>,
    <<"b","u","t","t","o","n"," ","t","e","x","t">>, <<"p","o","s","i","t","i","o","n">>,
    <<"r","e","v","i","e","w","s">>, <<"s","o","l","d">>, <<"r","a","t","i","n","g">>,
    <<"m","a","n","a","g","e"," ","s","t","o","c","k">>,
    <<"s","t","o","c","k"," ","s","t","a","t","u","s">>,
    <<"a","l","l","o","w"," ","b","a","c","k","o","r","d","e","r","s">>,
    <<"p","u","r","c","h","a","s","e"," ","n","o","t","e">>,
    <<"c","a","t","e","g","o","r","i","e","s">>, <<"t","a","g","s">>,
    <<"b","r","a","n","d","s">>,
    <<"s","w","a","t","c","h","e","s"," ","a","t","t","r","i","b","u","t","e","s">>
  >>

HTML_LIKE_KEYS ==
  <<
    <<"d","e","s","c","r","i","p","t","i","o","n">>, <<"c","o","n","t","e","n","t">>,
    <<"e","x","c","e","r","p","t">>,
    <<"s","h","o","r","t"," ","d","e","s","c","r","i","p","t","i","o","n">>
  >>

INGREDIENTS_KEYS ==
  <<
    <<"i","n","g","r","e","d","i","e","n","t","s">>,
    <<"i","n","g","r","e","d","i","e","n","t","i">>,
    <<"i","n","g","r","e","d","i","e","n","t","e","s">>,
    <<"i","n","g","r","U+00E9","d","i","e","n","t","s">>,
    <<"i","n","g","r","e","d","i","e","n","s">>,
    <<"i","n","h","a","l","t","s","t","o","f","f","e">>,
    <<"i","n","h","a","l","t","s","s","t","o","f","f","e">>,
    <<"z","l","o","U+017E","e","n","i","e">>, <<"z","l","o","z","e","n","i","e">>,
    <<"s","l","o","U+017E","e","n","U+00ED">>, <<"s","l","o","z","e","n","i">>,
    <<"s","k","U+0142","a","d">>, <<"s","k","l","a","d">>,
    <<"U+00F6","s","s","z","e","t","e","v","U+0151","k">>,
    <<"o","s","s","z","e","t","e","v","o","k">>, <<"s","a","s","t","o","j","c","i">>,
    <<"s","a","s","t","a","v">>, <<"s","e","s","t","a","v","i","n","e">>,
    <<"U+0441","U+043E","U+0441","U+0442","U+0430","U+0432">>,
    <<"U+0441","U+043A","U+043B","U+0430","U+0434">>,
    <<"i","n","g","r","e","d","i","e","n","t","e">>
  >>

ATTRIBUTE_NAME_KEY == <<"a","t","t","r","i","b","u","t","e"," ">>

ATTRIBUTE_NAME_SUFFIX == <<" ","n","a","m","e">>

ATTRIBUTE_VALUES_SUFFIX == <<" ","v","a","l","u","e","(","s",")">>

\* the prose keywords local to looks_textual
KEYS ==
  <<
    <<"n","a","m","e">>, <<"t","i","t","l","e">>,
    <<"d","e","s","c","r","i","p","t","i","o","n">>,
    <<"s","h","o","r","t"," ","d","e","s","c","r","i","p","t","i","o","n">>,
    <<"e","x","c","e","r","p","t">>, <<"c","o","n","t","e","n","t">>,
    <<"m","e","t","a",":"," ","r","a","n","k","_","m","a","t","h","_","t","i","t","l","e">>,
    <<"m","e","t","a",":"," ","r","a","n","k","_","m","a","t","h","_","d","e","s","c","r","i","p","t","i","o","n">>,
    <<"y","o","a","s","t">>, <<"o","g",":">>, <<"t","w","i","t","t","e","r",":">>,
    <<"s","e","o">>
  >>

(***************************************************************************)
(* Cells.  _try_read reads every cell as a string (dtype=str,              *)
(* keep_default_na=False); NaN is the missing-value marker that dropna     *)
(* and fillna look for.                                                    *)
(***************************************************************************)
NaN == <<"<NaN>">>

EMPTY == <<>>

DIGITS == <<"4","2">>

ALPHA == <<"a","b">>

MIXED == <<"x","-","1">>

\* series.dropna()
dropna(series) == SelectSeq(series, LAMBDA v : v # NaN)

\* series.fillna("")
fillna(series) == [i \in 1..Len(series) |-> IF series[i] = NaN THEN EMPTY ELSE series[i]]

\* series.head(n)
head(series, n) == SubSeq(series, 1, Min(n, Len(series)))

\* any(ch.isalpha() for ch in s)
HasAlpha(s) == \E i \in 1..Len(s) : IsAlpha(s[i])

SAMPLE_SIZE == 50

\* alpha_ratio >= 0.3, over the integers
RatioNum == 3

RatioDen == 10

(***************************************************************************)
(* Column heuristics.                                                      *)
(***************************************************************************)
is_never_translate(col) ==
    LET c == Lower(col)
    IN  \/ ContainsAny(c, NEVER_TRANSLATE_KEYS)
        \/ Contains(c, ATTRIBUTE_NAME_KEY) /\ Contains(c, ATTRIBUTE_NAME_SUFFIX)

is_ingredient_col(col) == ContainsAny(Lower(col), INGREDIENTS_KEYS)

\* the sample the content heuristic looks at
Sample(series) == head(dropna(series), SAMPLE_SIZE)

\* the content heuristic of looks_textual (the columns are of dtype object)
ContentTextual(series) ==
    LET sample == Sample(series)
        alpha  == Cardinality({i \in 1..Len(sample) : HasAlpha(sample[i])})
    IN  IF Len(sample) = 0 THEN FALSE
        ELSE alpha * RatioDen >= RatioNum * Len(sample)

looks_textual(col_name, series) ==
    LET c == Lower(col_name)
    IN  IF is_never_translate(col_name) THEN FALSE
        ELSE IF Contains(c, ATTRIBUTE_NAME_KEY) /\ Contains(c, ATTRIBUTE_VALUES_SUFFIX) THEN TRUE
        ELSE IF ContainsAny(c, KEYS) THEN TRUE
        ELSE ContentTextual(series)

\* a faulty markup test that forgets col.lower()
IsHtmlCol_Raw(col) == ContainsAny(col, HTML_LIKE_KEYS)

\* any(k in col.lower() for k in HTML_LIKE_KEYS)
IsHtmlCol(col) == ContainsAny(Lower(col), HTML_LIKE_KEYS)

\* a faulty decision chain that looks at the ingredients vocabulary first
TranslateByHeuristics_IngredientFirst(table, col, exclude_ingredients) ==
    IF is_ingredient_col(col) THEN ~exclude_ingredients
    ELSE IF is_never_translate(col) THEN FALSE
    ELSE looks_textual(col, table.data[col])

\* the heuristic branch of choose_columns, for one column
TranslateByHeuristics(table, col, exclude_ingredients) ==
    IF is_never_translate(col) THEN FALSE
    ELSE IF exclude_ingredients /\ is_ingredient_col(col) THEN FALSE
    ELSE looks_textual(col, table.data[col]) \/ is_ingredient_col(col)

\* whether choose_columns appends col to cols
InCols(table, col, exclude_ingredients, only_cols) ==
    IF only_cols # <<>>
    THEN col \in Range(only_cols)
    ELSE TranslateByHeuristics(table, col, exclude_ingredients)

choose_columns(table, exclude_ingredients, only_cols) ==
    LET T(col) == InCols(table, col, exclude_ingredients, only_cols)
        cols   == SelectSeq(table.columns, T)
    IN  [cols      |-> cols,
         html_cols |-> SelectSeq(cols, IsHtmlCol),
         skipped   |-> SelectSeq(table.columns, LAMBDA col : ~T(col))]

(***************************************************************************)
(* Tables.  A table is [columns, data]: the column names in order and,     *)
(* for each name, the cells of the column in row order.                    *)
(***************************************************************************)
NRows(table) ==
    IF table.columns = <<>> THEN 0 ELSE Len(table.data[table.columns[1]])

\* df[mask]: the rows whose index is in keep, in order
RowsAt(series, keep) ==
    LET F[i \in 0..Len(series)] ==
            IF i = 0 THEN <<>>
            ELSE IF i \in keep THEN Append(F[i - 1], series[i]) ELSE F[i - 1]
    IN  F[Len(series)]

FilterRows(table, keep) ==
    [table EXCEPT !.data = [c \in DOMAIN table.data |-> RowsAt(table.data[c], keep)]]

\* df.head(n)
HeadRows(table, n) ==
    [table EXCEPT !.data = [c \in DOMAIN table.data |-> head(table.data[c], n)]]

CATEGORIES == <<"C","a","t","e","g","o","r","i","e","s">>

\* df["Categories"].str.lower().str.contains(cat.lower(), na=False), for a cat
\* without regular-expression metacharacters
CategoryMask(table, cat) ==
    {i \in 1..NRows(table) :
        /\ table.data[CATEGORIES][i] # NaN
        /\ Contains(Lower(table.data[CATEGORIES][i]), Lower(cat))}

\* lines 305-314 of main: the category filter, then the row limit
select_rows(table, cat_contains, limit_rows) ==
    LET t1 == IF cat_contains # <<>> /\ CATEGORIES \in Range(table.columns)
              THEN FilterRows(table, CategoryMask(table, cat_contains))
              ELSE table
    IN  IF limit_rows > 0 THEN HeadRows(t1, limit_rows) ELSE t1

\* df[col] = out_vals, for a col of the table; pandas raises ValueError when
\* the lengths differ
CanSetColumn(table, col, vals) == Len(vals) = NRows(table)

\* a faulty df[col] = out_vals: the column is dropped and added again at the end
SetColumn_Moved(table, col, vals) ==
    [columns |-> SelectSeq(table.columns, LAMBDA c : c # col) \o <<col>>,
     data    |-> [table.data EXCEPT ![col] = vals]]

SetColumn(table, col, vals) == [table EXCEPT !.data[col] = vals]

(***************************************************************************)
(* The translation service and deepl_translate_batch.                      *)
(***************************************************************************)
BATCH_SIZE == 50

MAX_TRIES == 5

RETRYABLE_STATUS == {429, 500, 502, 503, 504}

\* the statuses the service answers with in the model
Statuses == {200, 400, 403, 429, 456, 500, 501, 502, 503, 504}

\* resp.raise_for_status() raises
RaisesForStatus(status) == status >= 400 /\ status < 600

\* the delays, as exact rationals
BACKOFF_START == [num |-> 15, den |-> 10]

BACKOFF_FACTOR == [num |-> 18, den |-> 10]

Times(a, b) == [num |-> a.num * b.num, den |-> a.den * b.den]

\* a faulty retry test: `if tries <= 5`
MayRetry_Inclusive(t) == t <= MAX_TRIES

\* `if tries < 5` (lines 229 and 235)
MayRetry(t) == t < MAX_TRIES

\* `resp.status_code in (429, 500, 502, 503, 504)` (line 234)
IsRetryableStatus(status) == status \in RETRYABLE_STATUS

\* what the service makes of one text, and what it sends beyond the texts
Translate(v) == IF v = EMPTY THEN EMPTY ELSE <<"#">> \o v

SURPLUS_TEXT == <<"#","?">>

\* the tags the service reports
LANGS == {"EN"}

\* the "translations" of a well-formed answer with n items, all tagged lang
Translations(batch, n) ==
    [i \in 1..n |-> IF i <= Len(batch) THEN Translate(batch[i]) ELSE SURPLUS_TEXT]

Detected(n, lang) == Rep(lang, n)

\* a faulty reconciliation: the padding is taken from the head of the batch
Reconcile_Head(trs, det, batch) ==
    IF Len(trs) # Len(batch)
    THEN LET diff == Len(batch) - Len(trs)
         IN  [trs |-> trs \o SubSeq(batch, 1, diff),
              det |-> det \o Rep("", IF diff > 0 THEN diff ELSE 0)]
    ELSE [trs |-> trs, det |-> det]

\* lines 360-363 of main
Reconcile(trs, det, batch) ==
    IF Len(trs) # Len(batch)
    THEN LET diff == Len(batch) - Len(trs)
         IN  [trs |-> trs \o SubSeq(batch, Len(trs) + 1, Len(batch)),
              det |-> det \o Rep("", IF diff > 0 THEN diff ELSE 0)]
    ELSE [trs |-> trs, det |-> det]

\* lines 367-370 of main
Summarize(summary, langs) ==
    [l \in LANGS |-> summary[l] + Cardinality({i \in 1..Len(langs) : langs[i] = l})]

\* values of the column being translated (lines 350-351)
Col == sel.cols[ci]

Values == fillna(df.data[Col])

\* batch = values[i:i+50]
Batch == SubSeq(Values, bi + 1, Min(bi + BATCH_SIZE, Len(Values)))

(***************************************************************************)
(* Bounds of the model and the inputs drawn within them.                   *)
(***************************************************************************)
\* rows beyond one full batch in the longest table
ExtraRows == 1

\* translations the service may send beyond the texts it was given
MaxSurplus == 1

RowCounts == {0, 1, BATCH_SIZE, BATCH_SIZE + ExtraRows}

\* how many translations an answer to a batch of len texts may hold
Counts(len) == {n \in 0..(len + MaxSurplus) : n = 0 \/ n >= len - 1}

NAME == <<"N","a","m","e">>

SKU == <<"S","K","U">>

DESCRIPTION == <<"D","e","s","c","r","i","p","t","i","o","n">>

REGULAR_PRICE == <<"R","e","g","u","l","a","r"," ","p","r","i","c","e">>

INGREDIENTI == <<"I","n","g","r","e","d","i","e","n","t","i">>

CUSTOM == <<"C","u","s","t","o","m">>

Layouts ==
    { <<NAME, SKU, DESCRIPTION>>,
      <<CATEGORIES, INGREDIENTI, CUSTOM>>,
      <<SKU, REGULAR_PRICE>> }

ContentKinds == {"mixed", "sparse"}

Cycle(kind) ==
    IF kind = "mixed" THEN <<ALPHA, DIGITS, EMPTY, MIXED>>
    ELSE <<DIGITS, NaN, EMPTY, DIGITS>>

\* the table with the given columns and n rows, the cells cycling by row and column
MakeTable(columns, n, kind) ==
    [columns |-> columns,
     data    |-> [c \in Range(columns) |->
                    LET j == CHOOSE k \in DOMAIN columns : columns[k] = c
                    IN  [i \in 1..n |-> Cycle(kind)[((i + j) % 4) + 1]]]]

\* the command line without options, and the command lines that set one option
\* (or the two row selectors together)
DefaultArgs ==
    [exclude_ingredients |-> FALSE, only_cols |-> <<>>, estimate |-> FALSE,
     limit_rows |-> 0, cat_contains |-> <<>>]

RunArgs ==
    { DefaultArgs,
      [DefaultArgs EXCEPT !.exclude_ingredients = TRUE],
      [DefaultArgs EXCEPT !.only_cols = <<NAME>>],
      [DefaultArgs EXCEPT !.only_cols = <<SKU, CUSTOM>>],
      [DefaultArgs EXCEPT !.estimate = TRUE],
      [DefaultArgs EXCEPT !.limit_rows = 1],
      [DefaultArgs EXCEPT !.cat_contains = <<"A">>],
      [DefaultArgs EXCEPT !.cat_contains = <<"A">>, !.limit_rows = 1] }

NoResp == [kind |-> "none", status |-> 0, n |-> 0, lang |-> ""]

NoSummary == [l \in LANGS |-> 0]

IdleLoad ==
    /\ file = None /\ arg_sep = None /\ arg_encoding = None /\ parse = None
    /\ hdr = None /\ reads = <<>> /\ loaded = None

IdleLoop ==
    /\ ci = 0 /\ bi = 0 /\ out_vals = <<>> /\ det_langs = <<>> /\ tries = 0
    /\ backoff = BACKOFF_START /\ slept = <<>> /\ resp = NoResp
    /\ detected_summary = NoSummary

(***************************************************************************)
(* main(), from the loaded table on.                                       *)
(***************************************************************************)
Init ==
    /\ pc = "select" /\ err = ""
    /\ IdleLoad /\ IdleLoop
    /\ \E columns \in Layouts, n \in RowCounts, kind \in ContentKinds :
          df = MakeTable(columns, n, kind)
    /\ df0 = None /\ sel = None /\ written = <<>>
    /\ args \in RunArgs

\* lines 305-314
SelectRows ==
    /\ pc = "select"
    /\ df' = select_rows(df, args.cat_contains, args.limit_rows)
    /\ df0' = df'
    /\ pc' = "classify"
    /\ UNCHANGED <<err, args, sel, written, loadVars, loopVars>>

\* line 325
Classify ==
    /\ pc = "classify"
    /\ sel' = choose_columns(df, args.exclude_ingredients, args.only_cols)
    /\ pc' = "chosen"
    /\ UNCHANGED <<err, df, df0, args, written, loadVars, loopVars>>

\* lines 327-330: nothing to translate, the table is written as it is
NoColumns ==
    /\ pc = "chosen" /\ sel.cols = <<>>
    /\ written' = Append(written, df)
    /\ pc' = "done"
    /\ UNCHANGED <<err, df, df0, args, sel, loadVars, loopVars>>

\* lines 339-346: --estimate ends the run without a remote call or an output
Estimate ==
    /\ pc = "chosen" /\ sel.cols # <<>> /\ args.estimate
    /\ pc' = "estimated"
    /\ UNCHANGED <<err, tableVars, loadVars, loopVars>>

\* line 348
StartTranslation ==
    /\ pc = "chosen" /\ sel.cols # <<>> /\ ~args.estimate
    /\ detected_summary' = NoSummary
    /\ ci' = 0
    /\ pc' = "column"
    /\ UNCHANGED <<err, tableVars, loadVars, bi, out_vals, det_langs, tries, backoff,
                   slept, resp>>

\* lines 349-356: the next column
BeginColumn ==
    /\ pc = "column" /\ ci < Len(sel.cols)
    /\ ci' = ci + 1
    /\ out_vals' = <<>> /\ det_langs' = <<>>
    /\ bi' = 0
    /\ pc' = "batch"
    /\ UNCHANGED <<err, tableVars, loadVars, tries, backoff, slept, resp,
                   detected_summary>>

\* lines 357-359 and 207-223: the next batch enters deepl_translate_batch
BeginBatch ==
    /\ pc = "batch" /\ bi < Len(Values)
    /\ tries' = 0
    /\ backoff' = BACKOFF_START
    /\ slept' = <<>>
    /\ resp' = NoResp
    /\ pc' = "call"
    /\ UNCHANGED <<err, tableVars, loadVars, ci, bi, out_vals, det_langs,
                   detected_summary>>

\* a faulty loop that sleeps before it looks at the retry budget
SleepLog_Always(s, b, retry) == Append(s, b)

\* time.sleep(backoff) is reached only inside `if tries < 5`
SleepLog(s, b, retry) == IF retry THEN Append(s, b) ELSE s

\* lines 229-233 and 235-239: sleep and go round again, or raise
RetryOrRaise(e) ==
    LET retry == MayRetry(tries + 1)
    IN  /\ tries' = tries + 1
        /\ slept' = SleepLog(slept, backoff, retry)
        /\ backoff' = IF retry THEN Times(backoff, BACKOFF_FACTOR) ELSE backoff
        /\ pc' = IF retry THEN "call" ELSE "failed"
        /\ err' = IF retry THEN "" ELSE e
        /\ UNCHANGED <<tableVars, loadVars, ci, bi, out_vals, det_langs,
                       detected_summary>>

\* lines 227-233: requests.post raises
PostTransportError ==
    /\ pc = "call"
    /\ resp' = [kind |-> "transport", status |-> 0, n |-> 0, lang |-> ""]
    /\ RetryOrRaise("ConnectionError")

\* lines 234-239: an answer with a status of the retry list
PostRetryable ==
    /\ pc = "call"
    /\ \E s \in Statuses :
          /\ IsRetryableStatus(s)
          /\ resp' = [kind |-> "http", status |-> s, n |-> 0, lang |-> ""]
    /\ RetryOrRaise("HTTPError")

\* line 240: any other error status is raised at once
PostHttpError ==
    /\ pc = "call"
    /\ \E s \in Statuses :
          /\ ~IsRetryableStatus(s) /\ RaisesForStatus(s)
          /\ resp' = [kind |-> "http", status |-> s, n |-> 0, lang |-> ""]
    /\ tries' = tries + 1
    /\ pc' = "failed"
    /\ err' = "HTTPError"
    /\ UNCHANGED <<tableVars, loadVars, ci, bi, out_vals, det_langs, backoff, slept,
                   detected_summary>>

\* lines 241-243: a 200 answer whose body is not JSON or lacks a "text"
PostBadBody ==
    /\ pc = "call"
    /\ resp' = [kind |-> "body", status |-> 200, n |-> 0, lang |-> ""]
    /\ tries' = tries + 1
    /\ pc' = "failed"
    /\ err' = "JSONDecodeError"
    /\ UNCHANGED <<tableVars, loadVars, ci, bi, out_vals, det_langs, backoff, slept,
                   detected_summary>>

\* lines 241-244 and 360-365: a well-formed answer ends deepl_translate_batch
\* (its locals are gone); the batch is reconciled and appended
PostOk ==
    /\ pc = "call"
    /\ \E n \in Counts(Len(Batch)), lang \in LANGS :
          LET r == Reconcile(Translations(Batch, n), Detected(n, lang), Batch)
          IN  /\ resp' = [kind |-> "ok", status |-> 200, n |-> n, lang |-> lang]
              /\ out_vals' = out_vals \o r.trs
              /\ det_langs' = det_langs \o r.det
    /\ tries' = 0 /\ backoff' = BACKOFF_START /\ slept' = <<>>
    /\ bi' = bi + BATCH_SIZE
    /\ pc' = "batch"
    /\ UNCHANGED <<err, tableVars, loadVars, ci, detected_summary>>

\* lines 367-372: the column's tags are counted and its cells replaced
FinishColumn ==
    /\ pc = "batch" /\ bi >= Len(Values)
    /\ detected_summary' = Summarize(detected_summary, det_langs)
    /\ IF CanSetColumn(df, Col, out_vals)
       THEN /\ df' = SetColumn(df, Col, out_vals)
            /\ pc' = "column"
            /\ err' = ""
       ELSE /\ df' = df
            /\ pc' = "failed"
            /\ err' = "ValueError"
    /\ resp' = NoResp
    /\ UNCHANGED <<df0, args, sel, written, loadVars, ci, bi, out_vals, det_langs,
                   tries, backoff, slept>>

\* lines 374-382
WriteOutput ==
    /\ pc = "column" /\ ci = Len(sel.cols)
    /\ written' = Append(written, df)
    /\ pc' = "done"
    /\ UNCHANGED <<err, df, df0, args, sel, loadVars, loopVars>>

Next ==
    \/ SelectRows
    \/ Classify
    \/ NoColumns
    \/ Estimate
    \/ StartTranslation
    \/ BeginColumn
    \/ BeginBatch
    \/ PostTransportError
    \/ PostRetryable
    \/ PostHttpError
    \/ PostBadBody
    \/ PostOk
    \/ FinishColumn
    \/ WriteOutput

Spec == Init /\ [][Next]_vars

(***************************************************************************)
(* Properties of the translation loop.                                     *)
(***************************************************************************)
\* the cells of column c as they were sent for translation
Sent(c) == fillna(df0.data[c])

\* cell i of column c of table t is the translation of the input cell, or the
\* input cell itself (the padding of a short answer)
CellTranslated(t, c, i) ==
    t.data[c][i] = Translate(Sent(c)[i]) \/ t.data[c][i] = Sent(c)[i]

ColumnTranslated(t, c) ==
    /\ Len(t.data[c]) = NRows(df0)
    /\ \A i \in 1..NRows(df0) : CellTranslated(t, c, i)

\* the batch loop of the current column has run to its end
ColumnAssembled == pc = "batch" /\ bi >= Len(Values)

\* C1: whatever number of translations the service returns for a batch, the
\* translated values assembled for a column, and the detected-language tags,
\* are exactly as many as the column's input values.
C1_AssembledLengthEqualsColumn ==
    ColumnAssembled =>
        /\ Len(out_vals) = Len(Values)
        /\ Len(det_langs) = Len(Values)

\* the statuses the claim C2 calls retryable: rate-limited, or any 5xx
ClaimedRetryable(r) ==
    \/ r.kind = "transport"
    \/ r.kind = "http" /\ (r.status = 429 \/ r.status \div 100 = 5)

\* the statuses deepl_translate_batch retries
ListedRetryable(r) ==
    \/ r.kind = "transport"
    \/ r.kind = "http" /\ r.status \in {429, 500, 502, 503, 504}

\* one remote call of a batch, the (tries + 1)-th, treating the failures R as
\* retryable: it is retried before the 5th call, raised at the 5th, and a
\* well-formed answer ends the loop at once
AttemptRule(R(_)) ==
    pc = "call" =>
        /\ tries + 1 <= 5
        /\ (R(resp') /\ tries + 1 < 5 =>
                pc' = "call" /\ tries' = tries + 1 /\ err' = "" /\ bi' = bi)
        /\ (R(resp') /\ tries + 1 = 5 => pc' = "failed" /\ err' # "")
        /\ (resp'.kind = "ok" => pc' = "batch" /\ bi' = bi + 50 /\ err' = "")

\* C2 as claimed: a transport failure, a rate-limited status or any 5xx status
\* is retried; a batch makes at most 5 calls; the 5th failure is raised; a
\* successful answer ends the loop on its attempt.
C2_AnyServerErrorRetried == [][AttemptRule(ClaimedRetryable)]_vars

\* C2 (amended): as claimed, for a transport failure and for the statuses 429,
\* 500, 502, 503 and 504; any other error status (501 among them) is raised at
\* once, without a retry.
C2_ListedStatusRetried ==
    [][/\ AttemptRule(ListedRetryable)
       /\ (pc = "call" /\ resp'.kind = "http" /\ ~ListedRetryable(resp') =>
              pc' = "failed" /\ err' # "")]_vars

C2_Witness ==
    /\ pc = "failed" /\ tries = 5
    /\ resp.kind = "http" /\ resp.status = 503

\* C3: when the run fails in column k, nothing is submitted any more, every
\* column before k holds its translated values and column k and the columns
\* after it hold their original values.
C3_FailureKeepsWholeColumns ==
    /\ [](pc = "failed" =>
            \A j \in 1..Len(sel.cols) :
                IF j < ci
                THEN ColumnTranslated(df, sel.cols[j])
                ELSE df.data[sel.cols[j]] = df0.data[sel.cols[j]])
    /\ [][err # "" => tries' = tries /\ bi' = bi /\ ci' = ci /\ df' = df]_vars

C3_Witness ==
    /\ pc = "failed" /\ err = "HTTPError" /\ ci = 2 /\ bi = BATCH_SIZE
    /\ \E i \in 1..NRows(df0) :
          /\ df.data[sel.cols[1]][i] # df0.data[sel.cols[1]][i]
          /\ df.data[sel.cols[1]][i] = Translate(Sent(sel.cols[1])[i])
    /\ \E i \in 1..NRows(df0) : df.data[sel.cols[1]][i] = ALPHA

\* C7: after a run that completes, the table written has the columns of the
\* (filtered) input in the same order and its rows in the same order; the cells
\* of the skipped columns are the input's, only cells of translated columns
\* may differ.
C7_OutputMirrorsInput ==
    pc = "done" =>
        LET out == written[Len(written)]
        IN  /\ out.columns = df0.columns
            /\ DOMAIN out.data = DOMAIN df0.data
            /\ \A c \in DOMAIN out.data : Len(out.data[c]) = NRows(df0)
            /\ \A j \in 1..Len(sel.skipped) :
                   out.data[sel.skipped[j]] = df0.data[sel.skipped[j]]
            /\ \A j \in 1..Len(sel.cols) : ColumnTranslated(out, sel.cols[j])

C7_Witness ==
    /\ pc = "done" /\ Len(written) = 1
    /\ sel.skipped # <<>> /\ Len(sel.cols) = 2
    /\ NRows(df0) > BATCH_SIZE
    /\ written[1].data[sel.cols[2]] # df0.data[sel.cols[2]]

\* C10: within one batch a delay is slept only after a retryable failure that
\* is followed by another attempt, the k-th delay is 1.5 * 1.8^(k-1), and no
\* delay is slept before a failure is raised.
C10_BackoffOnlyBetweenAttempts ==
    /\ Len(slept) <= 4
    /\ \A k \in 1..Len(slept) : slept[k].num * 10^k = 15 * 18^(k - 1) * slept[k].den
    /\ (pc = "call" => Len(slept) = tries)
    /\ (pc = "failed" /\ resp.kind # "none" => Len(slept) = tries - 1)

C10_Witness ==
    /\ pc = "failed" /\ tries = 5 /\ Len(slept) = 4
    /\ resp.kind = "transport"

(***************************************************************************)
(* choose_columns on its own: the tables and options it is given.          *)
(***************************************************************************)
\* cells of the first kind at the head of a column
Lead == 2

\* cells of the second kind after them
TailLen == 7

LeadLens == {0, Lead, Lead + 1, SAMPLE_SIZE}

TailLens == {0, TailLen, TailLen + 1}

ATTRIBUTE_1_NAME == <<"A","t","t","r","i","b","u","t","e"," ","1"," ","n","a","m","e">>

ATTRIBUTE_1_VALUES ==
    <<"A","t","t","r","i","b","u","t","e"," ","1"," ","v","a","l","u","e","(","s",")">>

DESCRIPTION_DATE == <<"D","e","s","c","r","i","p","t","i","o","n"," ","d","a","t","e">>

INGREDIENTS_STOCK == <<"I","n","g","r","e","d","i","e","n","t","s"," ","s","t","o","c","k">>

NOTES == <<"N","o","t","e","s">>

ClassifyNames ==
    {NAME, SKU, REGULAR_PRICE, DESCRIPTION, INGREDIENTI, CUSTOM, NOTES, CATEGORIES,
     ATTRIBUTE_1_NAME, ATTRIBUTE_1_VALUES, DESCRIPTION_DATE, INGREDIENTS_STOCK}

\* the tables of one column c1, and of c1 followed by a column of digits
ClassifyTables ==
    { [columns |-> <<c1>> \o rest,
       data    |-> [c \in {c1} \cup Range(rest) |->
                      IF c = c1 THEN Rep(v1, k1) \o Rep(v2, k2)
                      ELSE Rep(DIGITS, k1 + k2)]] :
        c1 \in ClassifyNames, rest \in {<<>>, <<SKU>>, <<DESCRIPTION>>},
        v1 \in {ALPHA, DIGITS, EMPTY, NaN}, v2 \in {ALPHA, DIGITS, EMPTY},
        k1 \in LeadLens, k2 \in TailLens }

InitClassify ==
    /\ pc = "classify" /\ err = ""
    /\ IdleLoad /\ IdleLoop
    /\ df \in {t \in ClassifyTables : Len(t.columns) = Cardinality(Range(t.columns))}
    /\ df0 = df /\ sel = None /\ written = <<>>
    /\ \E ex \in BOOLEAN, only \in {<<>>, <<df.columns[1]>>, <<SKU, CUSTOM>>} :
          args = [DefaultArgs EXCEPT !.exclude_ingredients = ex, !.only_cols = only]

SpecClassify == InitClassify /\ [][Classify]_vars

(***************************************************************************)
(* Properties of the classification.                                       *)
(***************************************************************************)
Chosen == pc = "chosen"

Translated == Range(sel.cols)

Skipped == Range(sel.skipped)

Markup == Range(sel.html_cols)

\* the HTML-bearing keywords the claim C5 names
ClaimedHtmlKeys ==
    << <<"d","e","s","c","r","i","p","t","i","o","n">>, <<"c","o","n","t","e","n","t">>,
       <<"e","x","c","e","r","p","t">> >>

\* C5: every column is in exactly one of translate and skip, markup is a subset
\* of translate, and a translated column is markup iff its lower-cased name
\* contains description, content or excerpt.
C5_PartitionAndMarkup ==
    Chosen =>
        /\ \A c \in Range(df.columns) : (c \in Translated) # (c \in Skipped)
        /\ Translated \cup Skipped = Range(df.columns)
        /\ Len(sel.cols) + Len(sel.skipped) = Len(df.columns)
        /\ Markup \subseteq Translated
        /\ \A c \in Translated : c \in Markup <=> ContainsAny(Lower(c), ClaimedHtmlKeys)

C5_Witness ==
    /\ Chosen /\ args.only_cols = <<>>
    /\ sel.html_cols = <<DESCRIPTION>> /\ sel.skipped = <<SKU>> /\ sel.cols = <<DESCRIPTION>>

\* the name is a never-translate name: it contains a never-translate keyword,
\* or the attribute marker and the name suffix
NeverName(col) ==
    \/ \E j \in DOMAIN NEVER_TRANSLATE_KEYS : Contains(Lower(col), NEVER_TRANSLATE_KEYS[j])
    \/ /\ Contains(Lower(col), <<"a","t","t","r","i","b","u","t","e"," ">>)
       /\ Contains(Lower(col), <<" ","n","a","m","e">>)

\* C6: without onlyColumns a column with a never-translate name is skipped
\* whatever its content, its other keywords and excludeIngredients; with
\* onlyColumns a column is translated iff its name is in onlyColumns.
C6_NeverTranslateAndOverride ==
    Chosen =>
        /\ (args.only_cols = <<>> =>
               \A c \in Range(df.columns) :
                   NeverName(c) => c \in Skipped /\ c \notin Translated)
        /\ (args.only_cols # <<>> =>
               \A c \in Range(df.columns) :
                   c \in Translated <=> c \in Range(args.only_cols))

C6_Witness ==
    /\ Chosen /\ args.only_cols = <<>> /\ ~args.exclude_ingredients
    /\ df.columns = <<INGREDIENTS_STOCK>>
    /\ sel.skipped = <<INGREDIENTS_STOCK>>
    /\ df.data[INGREDIENTS_STOCK] = Rep(ALPHA, Lead)

\* the name decides nothing: the content heuristic is what classifies the column
ContentDecided(col) ==
    /\ ~NeverName(col)
    /\ ~ContainsAny(Lower(col), INGREDIENTS_KEYS)
    /\ ~ContainsAny(Lower(col), KEYS)
    /\ ~(Contains(Lower(col), ATTRIBUTE_NAME_KEY)
         /\ Contains(Lower(col), ATTRIBUTE_VALUES_SUFFIX))

\* the sample the claim C8 describes: the first 50 non-empty cells
NonEmptySample(series) ==
    head(SelectSeq(series, LAMBDA v : v # EMPTY /\ v # NaN), SAMPLE_SIZE)

\* C8: a column not decided by name is translated iff the sample of its first
\* 50 non-empty cells is non-empty and at least 0.3 of the sampled cells
\* contain an alphabetic character.
C8_NonEmptyCellsSampled ==
    Chosen /\ args.only_cols = <<>> =>
        \A c \in Range(df.columns) :
            ContentDecided(c) =>
                LET sample == NonEmptySample(df.data[c])
                    alpha  == Cardinality({i \in 1..Len(sample) : HasAlpha(sample[i])})
                IN  c \in Translated <=> (Len(sample) > 0 /\ 10 * alpha >= 3 * Len(sample))

(***************************************************************************)
(* The table loader: _find_header_and_sep, _try_read and sniff_read_csv.   *)
(*                                                                         *)
(* A file is [bom, pre, header, post]: an optional byte-order mark, pre    *)
(* comment lines, one candidate header line and post data lines.  What     *)
(* pd.read_csv makes of the file is the input `parse`: what delimiter       *)
(* inference gives, the explicit delimiters under which the file parses    *)
(* into several columns, whether the other delimiters fail or give one     *)
(* column, the encodings under which the file decodes, and whether the     *)
(* parse from the sniffed header line succeeds.                            *)
(***************************************************************************)
MAX_LINES == 100

ENCODINGS == <<"utf-8-sig", "utf-8", "cp1250", "latin1">>

SEPS == <<",", ";", "\t", "|">>

COMMENT_LINE == <<"#"," ","x","\n">>

DATA_LINE == <<"a",";","1",",","b","\n">>

HEADER_SEMI ==
    <<"N","a","m","e",";","S","K","U",";","R","e","g","u","l","a","r"," ","p","r","i","c","e",
      ";","D","e","s","c","r","i","p","t","i","o","n","\n">>

HEADER_QUOTED == <<"\"","N","a","m","e","\""," ",","," ","\"","S","K","U","\"","\r","\n">>

HEADER_WEAK == <<"N","a","m","e",";","P","r","i","c","e","\n">>

HEADER_BOTH ==
    <<"N","a","m","e",",","S","K","U",",","x",";","N","a","m","e",";","S","K","U","\n">>

\* the byte-order mark as each encoding decodes it
BomAs(enc) ==
    IF enc = "utf-8-sig" THEN <<>>
    ELSE IF enc = "utf-8" THEN <<"U+FEFF">>
    ELSE IF enc = "cp1250" THEN <<"U+010F","U+00BB","U+017C">>
    ELSE <<"U+00EF","U+00BB","U+00BF">>

NLines(f) == f.pre + 1 + f.post

\* line i (from 1) of the file opened with encoding enc, errors="ignore"
LineAt(f, enc, i) ==
    LET text == IF i <= f.pre THEN COMMENT_LINE
                ELSE IF i = f.pre + 1 THEN f.header
                ELSE DATA_LINE
    IN  IF i = 1 /\ f.bom THEN BomAs(enc) \o text ELSE text

\* p.strip().strip('"').lower()
Normalize(p) == Lower(Strip(Strip(p, Whitespace), {"\""}))

\* lines 108-109: the number of fields of the line that are column-name hints
Score(line, s) ==
    LET parts == Split(RStrip(line, {"\n", "\r"}), s)
    IN  Cardinality({k \in DOMAIN parts : Normalize(parts[k]) \in EXPECTED_COL_HINTS})

\* Score, tabulated once over the lines and delimiters of the model
ModelLines ==
    LET texts == {COMMENT_LINE, DATA_LINE, HEADER_SEMI, HEADER_QUOTED, HEADER_WEAK, HEADER_BOTH}
    IN  texts \cup {BomAs(enc) \o t : enc \in Range(ENCODINGS), t \in texts}

ScoreTable == [line \in ModelLines |-> [s \in Range(SEPS) |-> Score(line, s)]]

\* `if score >= 2` (line 110)
IsHeader(line, s) == ScoreTable[line][s] >= 2

NoHeader == [idx |-> -1, sep |-> None, enc |-> None]

\* lines 106-111: the first (line, delimiter) of the first n lines scoring 2 or
\* more, under the first encoding that has one
RECURSIVE ScanHeader(_, _, _, _)
ScanHeader(f, encodings, seps, n) ==
    IF encodings = <<>> THEN NoHeader
    ELSE LET enc  == Head(encodings)
             hits == {i \in 1..n : \E j \in DOMAIN seps : IsHeader(LineAt(f, enc, i), seps[j])}
         IN  IF hits = {} THEN ScanHeader(f, Tail(encodings), seps, n)
             ELSE LET i == CHOOSE k \in hits : \A m \in hits : k <= m
                      j == CHOOSE k \in DOMAIN seps :
                              /\ IsHeader(LineAt(f, enc, i), seps[k])
                              /\ \A m \in 1..(k - 1) : ~IsHeader(LineAt(f, enc, i), seps[m])
                  IN  [idx |-> i - 1, sep |-> seps[j], enc |-> enc]

\* lines 101-105: `[next(f) for _ in range(max_lines)]` raises StopIteration
\* on a file of fewer lines, and `except Exception: continue` drops the encoding
HeadReadable(f, max_lines) == NLines(f) >= max_lines

_find_header_and_sep(f, encodings, seps, max_lines) ==
    IF HeadReadable(f, max_lines)
    THEN ScanHeader(f, encodings, seps, max_lines)
    ELSE NoHeader

\* lines 115-116
Encodings == IF arg_encoding # None THEN <<arg_encoding>> ELSE ENCODINGS

Seps == IF arg_sep # None THEN <<arg_sep>> ELSE SEPS

INFER == -1

\* _try_read: header is a line index, or INFER for header="infer"
_try_read(s, enc, header) ==
    LET ncols == IF enc \notin parse.decodable THEN 0
                 ELSE IF header # INFER THEN (IF parse.hdr_ok THEN 2 ELSE 0)
                 ELSE IF s = None THEN
                        (IF parse.infer = "many" THEN 2
                         ELSE IF parse.infer = "one" THEN 1 ELSE 0)
                 ELSE IF s \in parse.many THEN 2
                 ELSE IF parse.rest = "one" THEN 1 ELSE 0
    IN  [ok |-> ncols > 0, ncols |-> ncols, sep |-> s, enc |-> enc, header |-> header]

NotLoaded == [ok |-> FALSE, ncols |-> 0, sep |-> None, enc |-> None, header |-> INFER]

\* a faulty fallback that keeps delimiter inference for the end
CandidateSeps_InferLast(seps) == seps \o <<None>>

\* line 127: `[None] + seps`
CandidateSeps(seps) == <<None>> \o seps

\* lines 126-127: the (encoding, delimiter) pairs in the order of the two loops
BruteForceOrder(encodings, seps) ==
    LET cand == CandidateSeps(seps)
    IN  [k \in 1..(Len(encodings) * Len(cand)) |->
            [enc |-> encodings[((k - 1) \div Len(cand)) + 1],
             sep |-> cand[((k - 1) % Len(cand)) + 1]]]

\* lines 130-132: a parse is returned unless it is a one-column result of
\* delimiter inference
Accepted(r) == r.ok /\ ~(r.ncols = 1 /\ r.sep = None)

\* the _try_read calls of the fallback: up to the first accepted parse
BruteForceReads(encodings, seps) ==
    LET order == BruteForceOrder(encodings, seps)
        all   == [k \in DOMAIN order |-> _try_read(order[k].sep, order[k].enc, INFER)]
        hit   == {k \in DOMAIN all : Accepted(all[k])}
    IN  IF hit = {} THEN all
        ELSE SubSeq(all, 1, CHOOSE k \in hit : \A m \in hit : k <= m)

\* the files, options and parse answers of the model
PreLines == 2

PostLines == 1

\* a byte-order mark is drawn only where it touches the header line
Files ==
    { f \in [bom : BOOLEAN, pre : {0, PreLines, MAX_LINES - 1, MAX_LINES},
              header : {HEADER_SEMI, HEADER_QUOTED, HEADER_WEAK, HEADER_BOTH},
              post : {PostLines, MAX_LINES}] : f.bom => f.pre = 0 }

\* at most this many explicit delimiters give a parse of several columns
MaxMany == 1

ParseAnswers ==
    [infer : {"err", "one", "many"},
     many : {m \in SUBSET Range(SEPS) : Cardinality(m) <= MaxMany},
     rest : {"err", "one"},
     decodable : {Range(ENCODINGS), {"cp1250", "latin1"}},
     hdr_ok : BOOLEAN]

LoadArgs == {<<None, None>>, <<";", None>>, <<"|", None>>, <<None, "utf-8">>}

InitLoad ==
    /\ pc = "load" /\ err = ""
    /\ file \in Files
    /\ \E a \in LoadArgs : arg_sep = a[1] /\ arg_encoding = a[2]
    /\ parse \in ParseAnswers
    /\ hdr = NoHeader /\ reads = <<>> /\ loaded = NotLoaded
    /\ df = None /\ df0 = None /\ args = None /\ sel = None /\ written = <<>>
    /\ IdleLoop

\* line 118
FindHeader ==
    /\ pc = "load"
    /\ hdr' = _find_header_and_sep(file, Encodings, Seps, MAX_LINES)
    /\ pc' = IF hdr'.idx >= 0 THEN "header_read" ELSE "fallback"
    /\ UNCHANGED <<err, file, arg_sep, arg_encoding, parse, reads, loaded, tableVars,
                   loopVars>>

\* lines 119-123: the parse from the sniffed header line
HeaderRead ==
    /\ pc = "header_read"
    /\ LET r == _try_read(hdr.sep, hdr.enc, hdr.idx)
       IN  /\ reads' = Append(reads, r)
           /\ loaded' = IF r.ok THEN r ELSE loaded
           /\ pc' = IF r.ok THEN "loaded" ELSE "fallback"
    /\ UNCHANGED <<err, file, arg_sep, arg_encoding, parse, hdr, tableVars, loopVars>>

\* lines 124-136: the brute-force fallback; main ends the run when it raises
BruteForce ==
    /\ pc = "fallback"
    /\ LET rs   == BruteForceReads(Encodings, Seps)
           last == rs[Len(rs)]
       IN  /\ reads' = reads \o rs
           /\ loaded' = IF Accepted(last) THEN last ELSE loaded
           /\ pc' = IF Accepted(last) THEN "loaded" ELSE "load_failed"
           /\ err' = IF Accepted(last) THEN "" ELSE "ParserError"
    /\ UNCHANGED <<file, arg_sep, arg_encoding, parse, hdr, tableVars, loopVars>>

NextLoad ==
    \/ FindHeader
    \/ HeaderRead
    \/ BruteForce

SpecLoad == InitLoad /\ [][NextLoad]_vars

(***************************************************************************)
(* Properties of the loader.                                               *)
(***************************************************************************)
Sniffed == pc \in {"header_read", "fallback", "loaded", "load_failed"}

\* C4: for a file of any length, header sniffing examines the first
\* min(100, number of lines) lines and accepts the first combination, encoding
\* first, then line, then delimiter, that matches at least 2 hints; a file
\* whose third line is Name;SKU;Regular price;Description after two comment
\* lines yields header index 2 and delimiter ";".
C4_SniffsFilesOfAnyLength ==
    Sniffed =>
        /\ hdr = ScanHeader(file, Encodings, Seps, Min(100, NLines(file)))
        /\ (file.pre = 2 /\ file.header = HEADER_SEMI /\ arg_sep = None =>
                hdr.idx = 2 /\ hdr.sep = ";")

\* the _try_read calls of the fallback
FallbackReads == SelectSeq(reads, LAMBDA r : r.header = INFER)

FallbackDone == pc \in {"loaded", "load_failed"} /\ FallbackReads # <<>>

\* the fallback tries the delimiters cand, in that order, under each encoding
\* in turn, and returns the first parse that succeeds and is not a one-column
\* result of delimiter inference
FallbackFollows(cand) ==
    LET order == [k \in 1..(Len(Encodings) * Len(cand)) |->
                    [enc |-> Encodings[((k - 1) \div Len(cand)) + 1],
                     sep |-> cand[((k - 1) % Len(cand)) + 1]]]
        res   == [k \in DOMAIN order |-> _try_read(order[k].sep, order[k].enc, INFER)]
        good  == {k \in DOMAIN res : res[k].ok /\ ~(res[k].ncols = 1 /\ res[k].sep = None)}
        fb    == FallbackReads
    IN  /\ Len(fb) <= Len(order)
        /\ \A k \in DOMAIN fb : fb[k].sep = order[k].sep /\ fb[k].enc = order[k].enc
        /\ IF good = {}
           THEN pc = "load_failed" /\ Len(fb) = Len(order)
           ELSE LET first == CHOOSE k \in good : \A m \in good : k <= m
                IN  pc = "loaded" /\ loaded = res[first] /\ Len(fb) = first

\* C9 as claimed: under each encoding the explicit delimiters are tried before
\* delimiter inference, which comes last; the first parse in that order that
\* succeeds and is not a one-column result of inference is returned.
C9_InferenceTriedLast == FallbackDone => FallbackFollows(Seps \o <<None>>)

\* C9 (amended): under each encoding delimiter inference is tried first and
\* the explicit delimiters after it; the first parse in that order that
\* succeeds and is not a one-column result of inference is returned.
C9_InferenceTriedFirst == FallbackDone => FallbackFollows(<<None>> \o Seps)

C9_Witness ==
    /\ pc = "loaded" /\ Len(FallbackReads) >= 3
    /\ FallbackReads[1].sep = None /\ FallbackReads[1].ncols = 1
    /\ FallbackReads[2].sep = "," /\ ~FallbackReads[2].ok
    /\ loaded.sep = ";" /\ loaded.ncols = 2 /\ arg_sep = None
====
